---- MODULE Spec2Model ----
(***************************************************************************)
(* GboardPlugin (src/lib/index.js): the Slate plugin that tracks the       *)
(* composition lifecycle of a soft keyboard, buffers the composed text     *)
(* until the next before-input event, and reconciles the DOM text with the *)
(* model text on input events.                                             *)
(*                                                                         *)
(* A JS string is a sequence of one-character strings.  The editor value   *)
(* (Slate 0.3x, an Immutable.js structure) is a block given by the ordered *)
(* list of its text nodes; a text node is its list of characters, each     *)
(* with its set of marks; a node's key is its index in the block.          *)
(***************************************************************************)
EXTENDS Integers, Sequences, FiniteSets, TLC

VARIABLES
    IS_ANDROID,        \* util/environment flag, fixed for a run
    compositionCount,  \* closure variable, line 24
    isComposing,       \* closure variable, line 25
    textToInsert,      \* closure variable, line 28
    raf,               \* requestAnimationFrame callbacks not yet run, FIFO; each is its captured n
    document,          \* change.value.document
    selection,         \* change.value.selection
    ev,                \* the handler or callback that ran last, with its inputs and locals
    calls,             \* the calls the last handler made on `change`, in order
    ret,               \* what the last handler returned
    caller             \* where the host's event source is in a composition

vars == <<IS_ANDROID, compositionCount, isComposing, textToInsert, raf,
          document, selection, ev, calls, ret, caller>>

plugin == <<compositionCount, isComposing, textToInsert, raf>>
value == <<document, selection>>

-----------------------------------------------------------------------------
(* Bounds *)

MaxCount == 2     \* compositions started in a run
MaxPending == 1   \* animation-frame callbacks waiting at once
MaxText == 2      \* characters the document holds in Spec
MaxLen == 3       \* characters of a node's text and of a DOM text in SpecInput

-----------------------------------------------------------------------------
(* Strings *)

Chars == {"a", "b"}
NL == "\n"

Strs(n) == UNION {[1..k -> Chars] : k \in 0..n}

EMPTY == <<>>

\* An event.data that is not a string: the number 7.
NotAString == <<"Number(7)">>

IsString(v) == v # NotAString

\* JS ToString, applied by `+` and `+=` when the other operand is a string.
ToStr(v) == IF v = NotAString THEN <<"7">> ELSE v

Max(a, b) == IF a >= b THEN a ELSE b
Min(a, b) == IF a <= b THEN a ELSE b

-----------------------------------------------------------------------------
(* The editor value: Slate's Text, Leaf and Range, as the handlers use them *)

PLAIN == {}
BOLD == {"bold"}

Char(c, m) == [text |-> c, marks |-> m]

\* The characters of the string s, all with marks m.
CharsOf(s, m) == [i \in 1..Len(s) |-> Char(s[i], m)]

\* node.text
NodeText(node) == [i \in 1..Len(node) |-> node[i].text]

Leaf(t, m) == [text |-> t, marks |-> m]

\* node.getLeaves(): the runs of characters with equal marks; a node without
\* characters has one empty leaf.
RECURSIVE LeavesFrom(_, _, _)
LeavesFrom(node, i, acc) ==
    IF i > Len(node) THEN acc
    ELSE LET c == node[i]
             n == Len(acc)
         IN IF n > 0 /\ acc[n].marks = c.marks
            THEN LeavesFrom(node, i + 1,
                     [acc EXCEPT ![n] = Leaf(Append(acc[n].text, c.text), c.marks)])
            ELSE LeavesFrom(node, i + 1, Append(acc, Leaf(<<c.text>>, c.marks)))

getLeaves(node) ==
    IF Len(node) = 0 THEN <<Leaf(EMPTY, PLAIN)>> ELSE LeavesFrom(node, 1, <<>>)

\* block.getOffset(key): the characters of the block before the node.
RECURSIVE getOffset(_, _)
getOffset(doc, key) ==
    IF key <= 1 THEN 0 ELSE getOffset(doc, key - 1) + Len(doc[key - 1])

DocLen(doc) == getOffset(doc, Len(doc) + 1)

\* block.getLastText()
getLastText(doc) == Len(doc)

Range(ak, ao, fk, fo, bw) ==
    [anchorKey |-> ak, anchorOffset |-> ao, focusKey |-> fk, focusOffset |-> fo,
     isBackward |-> bw]

Collapsed(k, o) == Range(k, o, k, o, FALSE)

isCollapsed(r) == r.anchorKey = r.focusKey /\ r.anchorOffset = r.focusOffset
startKey(r) == IF r.isBackward THEN r.focusKey ELSE r.anchorKey
startOffset(r) == IF r.isBackward THEN r.focusOffset ELSE r.anchorOffset
endKey(r) == IF r.isBackward THEN r.anchorKey ELSE r.focusKey
endOffset(r) == IF r.isBackward THEN r.anchorOffset ELSE r.focusOffset

collapseToStart(r) == Collapsed(startKey(r), startOffset(r))
collapseToEnd(r) == Collapsed(endKey(r), endOffset(r))

\* range.move(n): moveAnchor(n).moveFocus(n)
move(r, n) ==
    LET ao == r.anchorOffset + n
        fo == r.focusOffset + n
    IN Range(r.anchorKey, ao, r.focusKey, fo,
             IF r.anchorKey = r.focusKey THEN ao > fo ELSE r.isBackward)

\* range.moveAnchorTo(key, offset); an undetermined direction (null) is falsy
moveAnchorTo(r, key, offset) ==
    Range(key, offset, r.focusKey, r.focusOffset,
          IF key = r.focusKey THEN offset > r.focusOffset
          ELSE IF key = r.anchorKey THEN r.isBackward ELSE FALSE)

moveFocusTo(r, key, offset) ==
    Range(r.anchorKey, r.anchorOffset, key, offset,
          IF key = r.anchorKey THEN r.anchorOffset > offset
          ELSE IF key = r.focusKey THEN r.isBackward ELSE FALSE)

\* A range whose two points are points of the document.
ValidPoint(doc, k, o) == k \in 1..Len(doc) /\ o \in 0..Len(doc[k])

ValidSel(doc, r) ==
    /\ ValidPoint(doc, r.anchorKey, r.anchorOffset)
    /\ ValidPoint(doc, r.focusKey, r.focusOffset)

\* The document without the characters at block offsets gs+1 .. ge.
deleteSpan(doc, gs, ge) ==
    [k \in 1..Len(doc) |->
        LET o == getOffset(doc, k)
            from == Max(gs - o, 0)
            to == Min(ge - o, Len(doc[k]))
        IN IF from < to
           THEN SubSeq(doc[k], 1, from) \o SubSeq(doc[k], to + 1, Len(doc[k]))
           ELSE doc[k]]

\* change.deleteAtRange(range), within the block
deleteAtRange(doc, r) ==
    deleteSpan(doc, getOffset(doc, startKey(r)) + startOffset(r),
                    getOffset(doc, endKey(r)) + endOffset(r))

\* change.insertTextByKey(key, offset, text, marks)
insertTextByKey(doc, key, offset, text, marks) ==
    [doc EXCEPT ![key] = SubSeq(@, 1, offset) \o CharsOf(text, marks)
                         \o SubSeq(@, offset + 1, Len(@))]

\* change.insertTextAtRange(range, text, marks): an expanded range is deleted
\* first, then the text goes in at its start.
insertTextAtRange(doc, r, text, marks) ==
    LET d == IF isCollapsed(r) THEN doc ELSE deleteAtRange(doc, r)
    IN insertTextByKey(d, startKey(r), startOffset(r), text, marks)

\* document.getInsertMarksAtRange(selection): the marks of the character
\* before a collapsed range, of the first character of an expanded one.
getInsertMarks(doc, r) ==
    LET node == doc[startKey(r)]
        o == startOffset(r)
    IN IF isCollapsed(r)
       THEN IF o = 0 THEN PLAIN ELSE node[o].marks
       ELSE IF o + 1 <= Len(node) THEN node[o + 1].marks ELSE PLAIN

\* The node and offset of the character at block offset g (g >= 1).
RECURSIVE keyOfChar(_, _, _)
keyOfChar(doc, g, k) ==
    IF g <= Len(doc[k]) THEN k ELSE keyOfChar(doc, g - Len(doc[k]), k + 1)

\* change.deleteCharBackward(): an expanded selection is deleted; a collapsed
\* one loses the character before it, which may be in an earlier text node;
\* at the start of the block nothing happens.  Yields the new value.
deleteCharBackward(doc, sel) ==
    LET g == getOffset(doc, startKey(sel)) + startOffset(sel)
    IN IF ~isCollapsed(sel)
       THEN [document |-> deleteAtRange(doc, sel),
             selection |-> collapseToStart(sel)]
       ELSE IF g = 0
       THEN [document |-> doc, selection |-> sel]
       ELSE LET k == keyOfChar(doc, g, 1)
            IN [document |-> deleteSpan(doc, g - 1, g),
                selection |-> Collapsed(k, g - 1 - getOffset(doc, k))]

\* change.insertText(text): at the selection, with the marks found there; the
\* selection ends up collapsed after the inserted text.
insertText(doc, sel, text) ==
    [document |-> insertTextAtRange(doc, sel, text, getInsertMarks(doc, sel)),
     selection |-> Collapsed(startKey(sel), startOffset(sel) + Len(text))]

\* One call on `change`, as the handlers make them.
Call(fn, text, range, marks) == [fn |-> fn, text |-> text, range |-> range, marks |-> marks]
NoRange == Collapsed(0, 0)

CallInsertText(t) == Call("insertText", t, NoRange, PLAIN)
CallInsertTextAtRange(r, t, m) == Call("insertTextAtRange", t, r, m)
CallSelect(r) == Call("select", EMPTY, r, PLAIN)
CallDeleteCharBackward == Call("deleteCharBackward", EMPTY, NoRange, PLAIN)

-----------------------------------------------------------------------------
(* jsdiff.diffChars(oldString, newString): Myers' O(ND) search as jsdiff's  *)
(* Diff.diff runs it.  Positions are jsdiff's: newPos is the 0-based index  *)
(* of the last character of the new string the path has consumed (-1: none),*)
(* and a path on diagonal d has consumed the old string up to newPos - d.   *)

Component(count, added, removed) ==
    [count |-> count, added |-> added, removed |-> removed, value |-> EMPTY]

Path(newPos, components) == [newPos |-> newPos, components |-> components]

\* bestPath[d] === undefined
NoPath == Path(-2, <<>>)

\* pushComponent(components, added, removed)
pushComponent(components, added, removed) ==
    LET n == Len(components)
    IN IF n > 0 /\ components[n].added = added /\ components[n].removed = removed
       THEN [components EXCEPT ![n] = Component(@.count + 1, added, removed)]
       ELSE Append(components, Component(1, added, removed))

\* The loop of extractCommon: how far the diagonal runs from (newPos, oldPos).
RECURSIVE commonCount(_, _, _, _)
commonCount(newString, oldString, newPos, oldPos) ==
    IF /\ newPos + 1 < Len(newString)
       /\ oldPos + 1 < Len(oldString)
       /\ newString[newPos + 2] = oldString[oldPos + 2]
    THEN 1 + commonCount(newString, oldString, newPos + 1, oldPos + 1)
    ELSE 0

\* extractCommon(basePath, newString, oldString, diagonalPath): the path moved
\* along its diagonal (the returned oldPos is newPos - diagonalPath).
extractCommon(basePath, newString, oldString, diagonalPath) ==
    LET c == commonCount(newString, oldString, basePath.newPos,
                         basePath.newPos - diagonalPath)
    IN Path(basePath.newPos + c,
            IF c > 0 THEN Append(basePath.components, Component(c, FALSE, FALSE))
            ELSE basePath.components)

\* buildValues(components, newString, oldString): each component gets its
\* substring, and a removal that follows an addition is moved before it.
RECURSIVE buildValues(_, _, _, _, _, _)
buildValues(components, componentPos, newPos, oldPos, newString, oldString) ==
    IF componentPos > Len(components) THEN components
    ELSE LET c == components[componentPos]
         IN IF ~c.removed
            THEN LET v == [c EXCEPT !.value = SubSeq(newString, newPos + 1, newPos + c.count)]
                 IN buildValues([components EXCEPT ![componentPos] = v],
                                componentPos + 1, newPos + c.count,
                                IF c.added THEN oldPos ELSE oldPos + c.count,
                                newString, oldString)
            ELSE LET v == [c EXCEPT !.value = SubSeq(oldString, oldPos + 1, oldPos + c.count)]
                     set == [components EXCEPT ![componentPos] = v]
                     swapped ==
                         IF componentPos > 1 /\ set[componentPos - 1].added
                         THEN [set EXCEPT ![componentPos - 1] = set[componentPos],
                                          ![componentPos] = set[componentPos - 1]]
                         ELSE set
                 IN buildValues(swapped, componentPos + 1, newPos, oldPos + c.count,
                                newString, oldString)

\* The body of execEditLength's loop for one diagonal, then the rest of the
\* diagonals of this edit length and the longer edit lengths after them.
\* bestPath is a function on the diagonals -maxEditLength-1 .. maxEditLength+1.
RECURSIVE execEditLength(_, _, _, _, _)
execEditLength(bestPath, editLength, diagonalPath, newString, oldString) ==
    LET newLen == Len(newString)
        oldLen == Len(oldString)
    IN IF editLength > newLen + oldLen THEN <<>>
       ELSE IF diagonalPath > editLength
       THEN execEditLength(bestPath, editLength + 1, -(editLength + 1), newString, oldString)
       ELSE
        LET addPath == bestPath[diagonalPath - 1]
            removePath == bestPath[diagonalPath + 1]
            hasAdd == addPath # NoPath
            hasRemove == removePath # NoPath
            oldPos == (IF hasRemove THEN removePath.newPos ELSE 0) - diagonalPath
            cleared == IF hasAdd THEN [bestPath EXCEPT ![diagonalPath - 1] = NoPath]
                       ELSE bestPath
            canAdd == hasAdd /\ addPath.newPos + 1 < newLen
            canRemove == hasRemove /\ 0 <= oldPos /\ oldPos < oldLen
        IN IF ~canAdd /\ ~canRemove
           THEN execEditLength([cleared EXCEPT ![diagonalPath] = NoPath], editLength,
                               diagonalPath + 2, newString, oldString)
           ELSE
            LET branched ==
                    IF ~canAdd \/ (canRemove /\ addPath.newPos < removePath.newPos)
                    THEN Path(removePath.newPos,
                              pushComponent(removePath.components, FALSE, TRUE))
                    ELSE Path(addPath.newPos + 1,
                              pushComponent(addPath.components, TRUE, FALSE))
                basePath == extractCommon(branched, newString, oldString, diagonalPath)
            IN IF basePath.newPos + 1 >= newLen
                  /\ (basePath.newPos - diagonalPath) + 1 >= oldLen
               THEN buildValues(basePath.components, 1, 0, 0, newString, oldString)
               ELSE execEditLength([cleared EXCEPT ![diagonalPath] = basePath], editLength,
                                   diagonalPath + 2, newString, oldString)

\* jsdiff.diffChars(oldString, newString): the edit script, a sequence of
\* components {count, added, removed, value}.
diffChars(oldString, newString) ==
    LET newLen == Len(newString)
        oldLen == Len(oldString)
        m == newLen + oldLen + 1
        seed == extractCommon(Path(-1, <<>>), newString, oldString, 0)
        bestPath == [d \in -m..m |-> IF d = 0 THEN seed ELSE NoPath]
    IN IF seed.newPos + 1 >= newLen /\ seed.newPos + 1 >= oldLen
       THEN <<[Component(newLen, FALSE, FALSE) EXCEPT !.value = newString]>>
       ELSE execEditLength(bestPath, 1, -1, newString, oldString)

\* The edit scripts of the texts the bounded runs compare, computed once:
\* diffOf(old, new) is diffChars(old, new).
DiffOldTexts == Strs(MaxLen) \cup UNION {[1..k -> Chars \cup {"7"}] : k \in 0..MaxText}

DiffNewTexts ==
    Strs(MaxLen) \cup {Append(s, NL) : s \in Strs(MaxLen - 1)}
                 \cup {s \o <<NL, NL>> : s \in Strs(MaxLen - 2)}
                 \cup Strs(MaxText)

diffTable == [p \in DiffOldTexts \X DiffNewTexts |-> diffChars(p[1], p[2])] @@ <<>>

diffOf(oldString, newString) ==
    IF <<oldString, newString>> \in DOMAIN diffTable
    THEN diffTable[<<oldString, newString>>]
    ELSE diffChars(oldString, newString)

-----------------------------------------------------------------------------
(* The handlers of GboardPlugin *)

Point(key, offset) == [key |-> key, offset |-> offset]

\* findPoint(...) === null
NoPoint == Point(0, 0)

\* What ran last: the handler, its event.data and the n it captured or ran
\* with; for onInput its locals: whether the point resolved, its node key,
\* the start and end of the leaf found, the DOM text read and the text
\* compared, whether a new line was removed from it, and the edit script the
\* Android branch computed.
Ev(op, data, n, locals) ==
    [op |-> op, data |-> data, n |-> n, resolved |-> locals.resolved, key |-> locals.key,
     start |-> locals.start, end |-> locals.end, domText |-> locals.domText,
     textContent |-> locals.textContent, stripped |-> locals.stripped,
     diffs |-> locals.diffs]

Locals(resolved, key, start, end, domText, textContent, stripped, diffs) ==
    [resolved |-> resolved, key |-> key, start |-> start, end |-> end,
     domText |-> domText, textContent |-> textContent, stripped |-> stripped,
     diffs |-> diffs]

NoLocals == Locals(FALSE, 0, 0, 0, EMPTY, EMPTY, FALSE, <<>>)

NoEv == Ev("none", EMPTY, 0, NoLocals)

\* An edit script without the substrings.
Script(diffs) ==
    [i \in 1..Len(diffs) |-> [count |-> diffs[i].count, added |-> diffs[i].added,
                              removed |-> diffs[i].removed]]

Caller(st, owed) == [st |-> st, owed |-> owed]

\* A composition end that buffers nothing.
bufferedTextDropped(android, composing, pending, data) ==
    pending

\* onCompositionEnd, lines 95-101: what textToInsert holds afterwards.
bufferedText(android, composing, pending, data) ==
    IF android /\ composing
    THEN IF data # EMPTY THEN data ELSE pending
    ELSE pending

\* A reset that never clears the flag.
resetComposingNever(count, n, composing) ==
    composing

\* A reset whose guard lets the callback of the composition before pass.
resetComposingOffByOne(count, n, composing) ==
    IF count > n + 1 THEN composing ELSE FALSE

\* A reset without the generation guard of line 91.
resetComposingUnguarded(count, n, composing) ==
    FALSE

\* The animation-frame callback, lines 91-92: what isComposing holds afterwards.
resetComposing(count, n, composing) ==
    IF count > n THEN composing ELSE FALSE

\* An onBeforeInput whose line 53 puts the data ahead of the pending text.
localInsertOfSwapped(android, pending, data) ==
    IF android
    THEN LET first == IF data # EMPTY /\ pending = EMPTY THEN data ELSE EMPTY
         IN IF pending # EMPTY THEN first \o (data \o ToStr(pending)) ELSE first
    ELSE data

\* onBeforeInput, lines 41-66: localInsert when the handler reaches line 68.
localInsertOf(android, pending, data) ==
    IF android
    THEN LET first == IF data # EMPTY /\ pending = EMPTY THEN data ELSE EMPTY
         IN IF pending # EMPTY THEN first \o (ToStr(pending) \o data) ELSE first
    ELSE data

\* An onBeforeInput without line 55.
pendingAfterBeforeInputKept(android, pending) ==
    pending

\* onBeforeInput, lines 52-56: what textToInsert holds afterwards.
pendingAfterBeforeInput(android, pending) ==
    IF android /\ pending # EMPTY THEN EMPTY ELSE pending

\* An onBeforeInput without the test of line 68.
beforeInputCallsAlways(localInsert) ==
    <<CallInsertText(localInsert)>>

\* onBeforeInput, lines 68-70: the calls made on `change`.
beforeInputCalls(localInsert) ==
    IF localInsert # EMPTY THEN <<CallInsertText(localInsert)>> ELSE <<>>

\* The leaf lookup of onInput, lines 148-155: the index of the leaf found
\* and its start and end in the node; when no leaf reaches the offset the
\* last leaf stands in, with the start and end the loop ended on.
RECURSIVE findLeaf(_, _, _, _)
findLeaf(leaves, i, end, offset) ==
    LET start == end
        e == end + Len(leaves[i].text)
    IN IF e >= offset \/ i = Len(leaves)
       THEN [idx |-> i, start |-> start, end |-> e]
       ELSE findLeaf(leaves, i + 1, e, offset)

\* Lines 159-169: the DOM text with the rendering's extra trailing new line removed.
\* A compensation that does not look at which leaf it is, lines 167-169.
compatTextContentAnyLeaf(textContent, isLastText, isLastLeaf) ==
    IF Len(textContent) > 0 /\ textContent[Len(textContent)] = NL
    THEN SubSeq(textContent, 1, Len(textContent) - 1)
    ELSE textContent

compatTextContent(textContent, isLastText, isLastLeaf) ==
    IF /\ isLastText
       /\ isLastLeaf
       /\ Len(textContent) > 0
       /\ textContent[Len(textContent)] = NL
    THEN SubSeq(textContent, 1, Len(textContent) - 1)
    ELSE textContent

\* What a run of onInput leaves: the value, the calls made on `change`, the
\* result, and the edit script if one was computed.
Outcome(doc, sel, cs, r, diffs) ==
    [document |-> doc, selection |-> sel, calls |-> cs, ret |-> r, diffs |-> diffs]

\* An updateTextAndSelection that corrects the selection from its start.
updateTextAndSelectionFromStart(doc, sel, textContent, text, point, start, end, marks, diffs) ==
    LET delta == Len(textContent) - Len(text)
        corrected == move(collapseToStart(sel), delta)
        entire == moveFocusTo(moveAnchorTo(sel, point.key, start), point.key, end)
    IN [document |-> insertTextAtRange(doc, entire, textContent, marks),
        selection |-> corrected,
        calls |-> <<CallInsertTextAtRange(entire, textContent, marks), CallSelect(corrected)>>,
        ret |-> "false", diffs |-> diffs]

\* updateTextAndSelection, lines 216-226.
updateTextAndSelection(doc, sel, textContent, text, point, start, end, marks, diffs) ==
    LET delta == Len(textContent) - Len(text)
        corrected == move(collapseToEnd(sel), delta)
        entire == moveFocusTo(moveAnchorTo(sel, point.key, start), point.key, end)
    IN Outcome(insertTextAtRange(doc, entire, textContent, marks), corrected,
               <<CallInsertTextAtRange(entire, textContent, marks), CallSelect(corrected)>>,
               "false", diffs)

\* Lines 183-185: the moved selection is computed and dropped (a Range is
\* immutable), and the character before the value's selection is deleted.
setSelectionDeleteChar(doc, sel, ind, diffs) ==
    LET dropped == move(collapseToStart(sel), ind)
        v == deleteCharBackward(doc, sel)
    IN Outcome(v.document, v.selection, <<CallDeleteCharBackward>>, "false", diffs)

\* An Android branch that deletes one character for a removal of any length.
androidCorrectionAnyRemoval(diffs, doc, sel, textContent, text, point, start, end, marks) ==
    IF Len(diffs) > 0
    THEN IF Len(diffs) < 2
         THEN Outcome(doc, sel, <<>>, "TypeError", diffs)
         ELSE IF diffs[2].removed
         THEN setSelectionDeleteChar(doc, sel, diffs[1].count, diffs)
         ELSE Outcome(doc, sel, <<>>, "false", diffs)
    ELSE Outcome(doc, sel, <<>>, "false", diffs)

\* Lines 178-192, given the edit script.  Reading diffs[1] of a one-component
\* script yields undefined, and `.removed` of it throws.
androidCorrection(diffs, doc, sel, textContent, text, point, start, end, marks) ==
    IF Len(diffs) > 0
    THEN LET ind == diffs[1].count
         IN IF Len(diffs) < 2
            THEN Outcome(doc, sel, <<>>, "TypeError", diffs)
            ELSE IF diffs[2].removed
            THEN IF diffs[2].count = 1
                 THEN setSelectionDeleteChar(doc, sel, ind, diffs)
                 ELSE updateTextAndSelection(doc, sel, textContent, text, point,
                                             start, end, marks, diffs)
            ELSE Outcome(doc, sel, <<>>, "false", diffs)
    ELSE Outcome(doc, sel, <<>>, "false", diffs)

\* The Android branch of onInput, lines 176-192.
androidInput(doc, sel, textContent, text, point, start, end, marks) ==
    androidCorrection(diffOf(text, textContent), doc, sel, textContent, text, point,
                      start, end, marks)

\* Lines 141-169: the leaf the point is in and the two texts compared.
inputContext(doc, point, domText) ==
    LET node == doc[point.key]
        leaves == getLeaves(node)
        found == findLeaf(leaves, 1, 0, point.offset)
        isLastText == point.key = getLastText(doc)
        isLastLeaf == found.idx = Len(leaves)
    IN [start |-> found.start, end |-> found.end, idx |-> found.idx,
        text |-> leaves[found.idx].text, marks |-> leaves[found.idx].marks,
        isLastText |-> isLastText, isLastLeaf |-> isLastLeaf,
        textContent |-> compatTextContent(domText, isLastText, isLastLeaf)]

\* An onInput without the abort of line 172.
reconcileAlways(c, android, doc, sel, point) ==
    IF android
    THEN androidInput(doc, sel, c.textContent, c.text, point, c.start, c.end, c.marks)
    ELSE updateTextAndSelection(doc, sel, c.textContent, c.text, point,
                                c.start, c.end, c.marks, <<>>)

\* Lines 171-197, given the leaf and the texts.
reconcile(c, android, doc, sel, point) ==
    IF c.textContent = c.text THEN Outcome(doc, sel, <<>>, "undefined", <<>>)
    ELSE IF android
    THEN androidInput(doc, sel, c.textContent, c.text, point, c.start, c.end, c.marks)
    ELSE updateTextAndSelection(doc, sel, c.textContent, c.text, point,
                                c.start, c.end, c.marks, <<>>)

\* An onInput that takes the start of the document for a point not found.
onInputDefaultPoint(android, doc, sel, point, domText) ==
    LET p == IF point = NoPoint THEN Point(1, 0) ELSE point
    IN reconcile(inputContext(doc, p, domText), android, doc, sel, p)

\* onInput, lines 129-201.
onInput(android, doc, sel, point, domText) ==
    IF point = NoPoint THEN Outcome(doc, sel, <<>>, "undefined", <<>>)
    ELSE reconcile(inputContext(doc, point, domText), android, doc, sel, point)

-----------------------------------------------------------------------------
(* Actions *)

\* An onCompositionStart without line 116.
CompositionStartNoCount ==
    /\ compositionCount < MaxCount
    /\ isComposing' = TRUE
    /\ compositionCount' = compositionCount
    /\ ev' = Ev("compositionStart", EMPTY, compositionCount + 1, NoLocals)
    /\ calls' = <<>>
    /\ ret' = "undefined"
    /\ caller' = Caller("composing", EMPTY)
    /\ UNCHANGED <<IS_ANDROID, textToInsert, raf, document, selection>>

CompositionStart ==
    /\ compositionCount < MaxCount
    /\ isComposing' = TRUE
    /\ compositionCount' = compositionCount + 1
    /\ ev' = Ev("compositionStart", EMPTY, compositionCount + 1, NoLocals)
    /\ calls' = <<>>
    /\ ret' = "undefined"
    /\ caller' = Caller("composing", EMPTY)
    /\ UNCHANGED <<IS_ANDROID, textToInsert, raf, document, selection>>

CompositionEnd(data) ==
    /\ Len(raf) < MaxPending
    /\ raf' = Append(raf, compositionCount)
    /\ textToInsert' = bufferedText(IS_ANDROID, isComposing, textToInsert, data)
    /\ ev' = Ev("compositionEnd", data, compositionCount, NoLocals)
    /\ calls' = <<>>
    /\ ret' = "undefined"
    /\ caller' = IF caller.st = "composing" /\ data # EMPTY
                 THEN Caller("awaitInput", data)
                 ELSE Caller("idle", EMPTY)
    /\ UNCHANGED <<IS_ANDROID, compositionCount, isComposing, document, selection>>

\* The browser runs the oldest animation-frame callback.
Reset ==
    /\ raf # <<>>
    /\ raf' = Tail(raf)
    /\ isComposing' = resetComposing(compositionCount, Head(raf), isComposing)
    /\ ev' = Ev("reset", EMPTY, Head(raf), NoLocals)
    /\ calls' = <<>>
    /\ ret' = "undefined"
    /\ UNCHANGED <<IS_ANDROID, compositionCount, textToInsert, document, selection, caller>>

BeforeInput(data) ==
    LET localInsert == localInsertOf(IS_ANDROID, textToInsert, data)
        cs == beforeInputCalls(localInsert)
        v == IF cs = <<>> THEN [document |-> document, selection |-> selection]
             ELSE insertText(document, selection, cs[1].text)
    IN /\ DocLen(document) + Len(localInsert) <= MaxText
       /\ textToInsert' = pendingAfterBeforeInput(IS_ANDROID, textToInsert)
       /\ document' = v.document
       /\ selection' = v.selection
       /\ ev' = Ev("beforeInput", data, 0, NoLocals)
       /\ calls' = cs
       /\ ret' = "false"
       /\ caller' = IF caller.st = "awaitInput" THEN Caller("idle", EMPTY) ELSE caller
       /\ UNCHANGED <<IS_ANDROID, compositionCount, isComposing, raf>>

\* The locals of a run of onInput on a resolved point, with its edit script.
inputLocals(doc, point, domText, diffs) ==
    LET c == inputContext(doc, point, domText)
    IN Locals(TRUE, point.key, c.start, c.end, domText, c.textContent,
              c.textContent # domText, Script(diffs))

\* An onInput that consumes the pending text.
InputClearsPending(point, domText) ==
    \E o \in {onInput(IS_ANDROID, document, selection, point, domText)} :
        /\ document' = o.document
        /\ selection' = o.selection
        /\ ev' = Ev("input", EMPTY, 0,
                    IF point = NoPoint THEN NoLocals
                    ELSE inputLocals(document, point, domText, o.diffs))
        /\ calls' = o.calls
        /\ ret' = o.ret
        /\ textToInsert' = EMPTY
        /\ UNCHANGED <<IS_ANDROID, compositionCount, isComposing, raf, caller>>

Input(point, domText) ==
    \E o \in {onInput(IS_ANDROID, document, selection, point, domText)} :
        /\ document' = o.document
        /\ selection' = o.selection
        /\ ev' = Ev("input", EMPTY, 0,
                    IF point = NoPoint THEN NoLocals
                    ELSE inputLocals(document, point, domText, o.diffs))
        /\ calls' = o.calls
        /\ ret' = o.ret
        /\ UNCHANGED <<IS_ANDROID, compositionCount, isComposing, textToInsert, raf, caller>>

-----------------------------------------------------------------------------
(* Inputs *)

\* event.data of a before-input event: nothing, or one character
Data == {EMPTY} \cup {<<c>> : c \in Chars}

\* event.data of a composition-end event: the same, or not a string
EndData == Data \cup {NotAString}

\* What a DOM text node can hold: a text, with up to two new lines after it.
DomTexts(n) ==
    Strs(n) \cup {Append(s, NL) : s \in Strs(n - 1)}
            \cup {s \o <<NL, NL>> : s \in Strs(n - 2)}

\* What findPoint can return for the document: null, or a point of a text node.
Points(doc) ==
    {NoPoint} \cup UNION {{Point(k, o) : o \in 0..Len(doc[k])} : k \in 1..Len(doc)}

-----------------------------------------------------------------------------
(* Spec: the plugin attached to an empty editor, every notification in any  *)
(* order.                                                                   *)

InitPlugin ==
    /\ IS_ANDROID \in BOOLEAN
    /\ compositionCount = 0
    /\ isComposing = FALSE
    /\ textToInsert = EMPTY
    /\ raf = <<>>
    /\ ev = NoEv
    /\ calls = <<>>
    /\ ret = "none"
    /\ caller = Caller("idle", EMPTY)

Init ==
    /\ InitPlugin
    /\ document = <<EMPTY>>
    /\ selection = Collapsed(1, 0)

\* An input event in Spec: the host keeps the selection a range of the document.
InputStep ==
    \E p \in Points(document), t \in Strs(MaxText) :
        /\ Input(p, t)
        /\ ValidSel(document', selection')
        /\ DocLen(document') <= MaxText

Next ==
    \/ CompositionStart
    \/ \E d \in EndData : CompositionEnd(d)
    \/ Reset
    \/ \E d \in Data : BeforeInput(d)
    \/ InputStep

Spec == Init /\ [][Next]_vars

-----------------------------------------------------------------------------
(* SpecContract: the host honours the ordering of section 5: a composition  *)
(* ends only after it started, and after a composition-end that carried a   *)
(* composed string the before-input notification comes before the next      *)
(* composition starts.                                                      *)

ContractStart == caller.st = "idle" /\ CompositionStart

ContractEnd == \E d \in EndData : caller.st = "composing" /\ CompositionEnd(d)

NextContract ==
    \/ ContractStart
    \/ ContractEnd
    \/ Reset
    \/ \E d \in Data : BeforeInput(d)
    \/ InputStep

SpecContract == Init /\ [][NextContract]_vars

-----------------------------------------------------------------------------
(* SpecInput: one input event on a value drawn from the bounded documents.  *)

\* A filler text node beside the node under test.
Filler == CharsOf(<<"b">>, PLAIN)

\* The node of text s whose first i characters are plain and the rest bold.
TwoLeaves(s, i) ==
    CharsOf(SubSeq(s, 1, i), PLAIN) \o CharsOf(SubSeq(s, i + 1, Len(s)), BOLD)

\* Text nodes of one leaf, or of two leaves with different marks.
InputNodes ==
    {CharsOf(s, PLAIN) : s \in Strs(MaxLen)}
        \cup UNION {{TwoLeaves(s, i) : i \in 1..Len(s) - 1} : s \in Strs(MaxLen)}

InputDocs ==
    UNION {{<<n>>, <<n, Filler>>, <<Filler, n>>} : n \in InputNodes}

\* Collapsed at any point, or spanning one whole node in either direction.
InputSelections(doc) ==
    UNION {{Collapsed(k, o) : o \in 0..Len(doc[k])} : k \in 1..Len(doc)}
        \cup UNION {{Range(k, 0, k, Len(doc[k]), FALSE), Range(k, Len(doc[k]), k, 0, TRUE)} :
                       k \in {j \in 1..Len(doc) : Len(doc[j]) > 0}}

InitInput ==
    /\ InitPlugin
    /\ document \in InputDocs
    /\ selection \in InputSelections(document)

NextInput ==
    /\ ev.op = "none"
    /\ \E p \in Points(document), t \in DomTexts(MaxLen) : Input(p, t)

SpecInput == InitInput /\ [][NextInput]_vars

-----------------------------------------------------------------------------
(* The same notifications when the browser runs every animation-frame
   callback it was asked for. *)

SpecLive == Init /\ [][Next]_vars /\ WF_vars(Reset)

-----------------------------------------------------------------------------
(* The composition tracker: C1 .. C5 *)

\* C1.  Stale reset guard: when the deferred reset captured at generation g
\* runs while compositionCount is greater than g, it changes nothing of the
\* plugin's state but its own place in the queue, and isComposing is TRUE
\* before and after.
StaleResetIsNoOp ==
    [][(ev'.op = "reset" /\ raf # <<>> /\ Head(raf) < compositionCount)
        => /\ isComposing /\ isComposing'
           /\ UNCHANGED <<compositionCount, textToInsert, document, selection>>]_vars

\* C1 happens: start (g = 1), end, start (g = 2), and the reset of g = 1 ran.
StaleResetRan ==
    /\ ev.op = "reset" /\ ev.n = 1
    /\ compositionCount = 2
    /\ isComposing

\* C2.  Buffering round trip on Android: after onCompositionStart and
\* onCompositionEnd with a non-empty string d, the next onBeforeInput with
\* data e makes exactly one insertText call, of d followed by e, and leaves
\* textToInsert empty, whether or not resets and onInput ran in between.
BufferingRoundTrip ==
    [][(ev'.op = "beforeInput" /\ IS_ANDROID /\ caller.st = "awaitInput"
            /\ IsString(caller.owed))
        => /\ calls' = <<CallInsertText(caller.owed \o ev'.data)>>
           /\ textToInsert' = EMPTY]_vars

\* C2 happens: "a" was composed, the deferred reset ran, and onBeforeInput
\* with "b" inserted "ab".
RoundTripAfterReset ==
    /\ IS_ANDROID
    /\ ev.op = "beforeInput" /\ ev.data = <<"b">>
    /\ calls = <<CallInsertText(<<"a", "b">>)>>
    /\ textToInsert = EMPTY
    /\ raf = <<>> /\ ~isComposing /\ compositionCount = 1

\* C3 as stated: every onBeforeInput and every onInput leaves textToInsert
\* empty (the first of either after the composition end consumes it).
PendingConsumedByAnyInput ==
    [][ev'.op \in {"beforeInput", "input"} => textToInsert' = EMPTY]_vars

\* C3.  Pending-text lifetime: textToInsert takes a new non-empty value only
\* in an onCompositionEnd on Android that ran while composing and carried
\* that value as its data; onBeforeInput leaves it empty; onInput and every
\* other step leave it as it was.
PendingLifetime ==
    [][/\ (textToInsert' # textToInsert /\ textToInsert' # EMPTY)
            => (ev'.op = "compositionEnd" /\ ev'.data = textToInsert'
                /\ IS_ANDROID /\ isComposing)
       /\ (ev'.op = "beforeInput" => textToInsert' = EMPTY)
       /\ (ev'.op \notin {"beforeInput", "compositionEnd"}
            => textToInsert' = textToInsert)]_vars

\* C3 happens: onBeforeInput with empty data inserted the pending "a" and
\* cleared it.
PendingConsumed ==
    /\ IS_ANDROID
    /\ ev.op = "beforeInput" /\ ev.data = EMPTY
    /\ calls = <<CallInsertText(<<"a">>)>>
    /\ textToInsert = EMPTY

\* C4.  No loss and no duplication on Android when the host delivers the
\* onBeforeInput of a composed string before the next composition starts:
\* a composition end with non-empty data finds textToInsert empty and
\* buffers its data; the onBeforeInput that follows inserts that data, once,
\* ahead of its own; an onBeforeInput with nothing owed inserts its own data
\* only.
NoLossNoDuplication ==
    [][IS_ANDROID =>
        /\ (ev'.op = "compositionEnd" /\ ev'.data # EMPTY)
             => (textToInsert = EMPTY /\ textToInsert' = ev'.data)
        /\ (ev'.op = "beforeInput" /\ caller.st = "awaitInput")
             => (calls' = <<CallInsertText(ToStr(caller.owed) \o ev'.data)>>
                 /\ textToInsert' = EMPTY)
        /\ (ev'.op = "beforeInput" /\ caller.st # "awaitInput")
             => calls' = IF ev'.data = EMPTY THEN <<>>
                         ELSE <<CallInsertText(ev'.data)>>]_vars

\* C4 happens: the string of a second composition, "b", was inserted by the
\* onBeforeInput that followed it.
SecondCompositionInserted ==
    /\ IS_ANDROID
    /\ compositionCount = 2
    /\ ev.op = "beforeInput" /\ ev.data = EMPTY
    /\ calls = <<CallInsertText(<<"b">>)>>
    /\ caller.st = "idle"
    /\ DocLen(document) = 2

\* C5.  onBeforeInput against its reference, for a string textToInsert: the
\* insertion text is the data off Android and on Android with nothing
\* pending, and the pending text followed by the data otherwise; insertText
\* is called once when that text is non-empty and not at all when it is
\* empty, and then the value is left alone; textToInsert is empty afterwards
\* on Android; nothing else of the plugin changes.
BeforeInputReference ==
    [][(ev'.op = "beforeInput" /\ IsString(textToInsert)) =>
        LET e == ev'.data
            reference == IF IS_ANDROID /\ textToInsert # EMPTY
                         THEN textToInsert \o e
                         ELSE e
        IN /\ calls' = IF reference = EMPTY THEN <<>>
                       ELSE <<CallInsertText(reference)>>
           /\ reference = EMPTY => UNCHANGED <<document, selection>>
           /\ DocLen(document') = DocLen(document) + Len(reference)
           /\ textToInsert' = IF IS_ANDROID THEN EMPTY ELSE textToInsert
           /\ UNCHANGED <<compositionCount, isComposing, raf>>]_vars

\* C5 happens: empty data with nothing pending on Android made no call.
EmptyBeforeInputInsertsNothing ==
    /\ IS_ANDROID
    /\ ev.op = "beforeInput" /\ ev.data = EMPTY
    /\ calls = <<>>
    /\ compositionCount > 0

-----------------------------------------------------------------------------
(* The input reconciler: C6 .. C10 *)

\* C6 as stated: on Android, when the DOM text differs from the leaf's text
\* and the edit script is not an unchanged component followed by a removal
\* of one character, onInput replaces the leaf's range with the DOM text
\* (insertTextAtRange, then select).
AndroidFallsThroughToReplace ==
    (/\ ev.op = "input" /\ IS_ANDROID /\ ev.resolved
     /\ ev.diffs # <<>>
     /\ ~(/\ Len(ev.diffs) >= 2
          /\ ~ev.diffs[1].added /\ ~ev.diffs[1].removed
          /\ ev.diffs[2].removed /\ ev.diffs[2].count = 1))
    => /\ Len(calls) = 2
       /\ calls[1].fn = "insertTextAtRange" /\ calls[1].text = ev.textContent
       /\ calls[2].fn = "select"

\* C7 as stated: on Android, when the edit script starts with an unchanged
\* component of k characters followed by a removal of one character, the
\* value afterwards is the one deleteCharBackward leaves with the selection
\* at offset k of the leaf, and the only call that edits is that one
\* deleteCharBackward.
SingleBackspaceMovesSelection ==
    [][(/\ ev'.op = "input" /\ IS_ANDROID
        /\ Len(ev'.diffs) >= 2
        /\ ~ev'.diffs[1].added /\ ~ev'.diffs[1].removed
        /\ ev'.diffs[2].removed /\ ev'.diffs[2].count = 1)
       => LET k == ev'.diffs[1].count
              v == deleteCharBackward(document, Collapsed(ev'.key, ev'.start + k))
          IN /\ document' = v.document
             /\ selection' = v.selection
             /\ calls'[Len(calls')] = CallDeleteCharBackward
             /\ \A i \in 1..(Len(calls') - 1) :
                    calls'[i].fn \notin {"deleteCharBackward", "insertTextAtRange"}]_vars

\* C8.  On Android, when the second component of the edit script is a
\* removal of more than one character, onInput calls insertTextAtRange on
\* the leaf's range with the DOM text, then select, and never
\* deleteCharBackward.
MultiCharDeletionReplaces ==
    (/\ ev.op = "input" /\ IS_ANDROID
     /\ Len(ev.diffs) >= 2
     /\ ev.diffs[2].removed /\ ev.diffs[2].count > 1)
    => /\ Len(calls) = 2
       /\ calls[1].fn = "insertTextAtRange"
       /\ calls[1].text = ev.textContent
       /\ calls[1].range.anchorKey = ev.key /\ calls[1].range.anchorOffset = ev.start
       /\ calls[1].range.focusKey = ev.key /\ calls[1].range.focusOffset = ev.end
       /\ calls[2] = CallSelect(selection)
       /\ SubSeq(NodeText(document[ev.key]), ev.start + 1, ev.start + Len(ev.textContent))
            = ev.textContent

\* C8 happens: "abb" against "a" gave an unchanged "a" and a removal of two,
\* and the range was replaced.
MultiCharDeletionReplaced ==
    /\ IS_ANDROID
    /\ ev.op = "input" /\ ev.textContent = <<"a">>
    /\ Len(ev.diffs) = 2 /\ ev.diffs[1].count = 1
    /\ ev.diffs[2].removed /\ ev.diffs[2].count = 2
    /\ Len(calls) = 2

\* C9.  Off Android, when the DOM text differs from the leaf's text, the
\* node's characters from leaf start to leaf end become the DOM text with
\* the leaf's marks and nothing else of the document changes; the selection
\* becomes the earlier selection collapsed to its end and moved by the
\* difference of the two lengths; the calls are insertTextAtRange and select.
ReplaceCorrect ==
    [][(/\ ev'.op = "input" /\ ~IS_ANDROID /\ ev'.resolved
        /\ ev'.textContent
             # SubSeq(NodeText(document[ev'.key]), ev'.start + 1, ev'.end))
       => LET key == ev'.key
              start == ev'.start
              end == ev'.end
              observed == ev'.textContent
              marks == IF end > start THEN document[key][start + 1].marks ELSE PLAIN
              delta == Len(observed) - (end - start)
              ek == IF selection.isBackward THEN selection.anchorKey
                    ELSE selection.focusKey
              eo == IF selection.isBackward THEN selection.anchorOffset
                    ELSE selection.focusOffset
          IN /\ document' =
                  [document EXCEPT ![key] =
                      SubSeq(@, 1, start)
                        \o [i \in 1..Len(observed) |-> [text |-> observed[i], marks |-> marks]]
                        \o SubSeq(@, end + 1, Len(@))]
             /\ selection' = [anchorKey |-> ek, anchorOffset |-> eo + delta,
                              focusKey |-> ek, focusOffset |-> eo + delta,
                              isBackward |-> FALSE]
             /\ Len(calls') = 2
             /\ calls'[1].fn = "insertTextAtRange" /\ calls'[1].text = observed
             /\ calls'[1].marks = marks
             /\ calls'[2] = CallSelect(selection')]_vars

\* C9 happens: off Android the second leaf of a node, one character long,
\* was replaced by "ab" while the selection spanned the node.
LeafReplaced ==
    /\ ~IS_ANDROID
    /\ ev.op = "input" /\ ev.textContent = <<"a", "b">>
    /\ ev.start = 1 /\ ev.end = 2
    /\ Len(document[ev.key]) = 3
    /\ selection = Collapsed(ev.key, 3)
    /\ Len(calls) = 2

\* C10 as stated: every onBeforeInput and every onInput returns false.
InputsAlwaysHandled ==
    ev.op \in {"beforeInput", "input"} => ret = "false"

-----------------------------------------------------------------------------
(* The input reconciler: C11 .. C13 *)

\* C11.  Equal text is left alone: on both platforms, when the DOM text
\* after the new-line compensation equals the text of the leaf found, onInput
\* makes no call on change and the document and the selection are unchanged.
EqualTextIsIdempotent ==
    [][(/\ ev'.op = "input" /\ ev'.resolved
        /\ ev'.textContent
             = SubSeq(NodeText(document[ev'.key]), ev'.start + 1, ev'.end))
       => /\ calls' = <<>>
          /\ UNCHANGED <<document, selection>>]_vars

\* C11 happens: the DOM text "ab\n" of the last leaf, "ab", was compared
\* after its new line was removed, and nothing was called.
EqualAfterCompensation ==
    /\ ev.op = "input" /\ ev.resolved
    /\ ev.domText = <<"a", "b", NL>> /\ ev.textContent = <<"a", "b">>
    /\ NodeText(document[ev.key]) = <<"a", "b">>
    /\ calls = <<>>

\* C12.  New-line compensation: the text compared is the DOM text without
\* its last character when the node is the block's last text node, the leaf
\* found is the node's last leaf and the DOM text ends in a new line, and is
\* the DOM text itself in every other case; one new line at most is removed.
TrailingNewLineCompensation ==
    [][(ev'.op = "input" /\ ev'.resolved) =>
        LET raw == ev'.domText
            node == document[ev'.key]
            isLast == /\ ev'.key = Len(document)
                      /\ ev'.end = Len(node)
            endsInNewLine == Len(raw) > 0 /\ raw[Len(raw)] = NL
        IN /\ ev'.textContent = IF isLast /\ endsInNewLine
                                 THEN SubSeq(raw, 1, Len(raw) - 1)
                                 ELSE raw
           /\ ev'.stripped <=> (isLast /\ endsInNewLine)]_vars

\* C12 happens: a DOM text ending in two new lines kept one of them.
TwoNewLinesKeepOne ==
    /\ ev.op = "input" /\ ev.resolved /\ ev.stripped
    /\ ev.domText = <<"a", NL, NL>>
    /\ ev.textContent = <<"a", NL>>

\* C13 as stated: on Android onInput never throws.
AndroidInputNeverThrows ==
    (ev.op = "input" /\ IS_ANDROID) => ret # "TypeError"

-----------------------------------------------------------------------------
(* Errors, frames and the life of a composition: C14 .. C18, C20 *)

\* C14 as stated: an onCompositionEnd whose data is empty or is not a string
\* leaves textToInsert as it was, and does not throw.
MalformedDataBuffersNothing ==
    [][(ev'.op = "compositionEnd" /\ (ev'.data = EMPTY \/ ~IsString(ev'.data)))
        => (textToInsert' = textToInsert /\ ret' # "TypeError")]_vars

\* C15.  When no point is found, onInput makes no call on change, leaves the
\* document, the selection and the plugin's state as they were, and does not
\* throw.
UnresolvedPointAborts ==
    [][(ev'.op = "input" /\ ~ev'.resolved)
        => /\ calls' = <<>>
           /\ ret' # "TypeError"
           /\ UNCHANGED <<document, selection, compositionCount, isComposing,
                          textToInsert, raf>>]_vars

\* C15 happens: onInput found no point while a composition was open and a
\* text was pending.
UnresolvedWhilePending ==
    /\ ev.op = "input" /\ ~ev.resolved
    /\ isComposing /\ textToInsert = <<"a">> /\ raf # <<>>
    /\ DocLen(document) > 0
    /\ calls = <<>>

\* C16.  When the browser runs every callback it was asked for: once a
\* callback that captured g is waiting, sooner or later isComposing is FALSE
\* or a composition newer than g has started; and a callback clears the flag
\* exactly when compositionCount equals what it captured, leaving it alone
\* otherwise.
DeferredResetClears ==
    /\ \A g \in 0..MaxCount :
          (\E i \in 1..Len(raf) : raf[i] = g) ~> (~isComposing \/ compositionCount > g)
    /\ [][ev'.op = "reset" =>
            /\ raf # <<>> /\ raf' = Tail(raf)
            /\ isComposing' = IF Head(raf) = compositionCount THEN FALSE
                               ELSE isComposing]_vars

\* C16 happens: the callback of the first composition found it the newest
\* and cleared the flag.
ResetCleared ==
    /\ ev.op = "reset" /\ ev.n = 1
    /\ compositionCount = 1
    /\ ~isComposing /\ raf = <<>>

\* C17.  compositionCount grows by one in every onCompositionStart, which
\* leaves isComposing TRUE, and no other step changes it; it never goes
\* down.
GenerationMonotonic ==
    [][/\ ev'.op = "compositionStart"
            => (compositionCount' = compositionCount + 1 /\ isComposing')
       /\ ev'.op # "compositionStart" => compositionCount' = compositionCount
       /\ compositionCount' >= compositionCount]_vars

\* C17 happens: a second onCompositionStart, with nothing else having
\* touched the count since the first.
SecondGeneration ==
    /\ ev.op = "compositionStart" /\ ev.n = 2
    /\ compositionCount = 2 /\ isComposing
    /\ DocLen(document) = 2

\* C18.  Frames: onInput leaves isComposing, compositionCount and
\* textToInsert alone; onBeforeInput leaves isComposing and compositionCount
\* alone and changes textToInsert only to empty; onCompositionStart,
\* onCompositionEnd and the reset leave the document and the selection
\* alone; isComposing becomes TRUE only in onCompositionStart and FALSE only
\* in the reset.
CompositionStateFrame ==
    [][/\ ev'.op = "input"
            => UNCHANGED <<isComposing, compositionCount, textToInsert>>
       /\ ev'.op = "beforeInput"
            => /\ UNCHANGED <<isComposing, compositionCount>>
               /\ textToInsert' \in {textToInsert, EMPTY}
       /\ ev'.op \in {"compositionStart", "compositionEnd", "reset"}
            => UNCHANGED <<document, selection>>
       /\ (~isComposing /\ isComposing') => ev'.op = "compositionStart"
       /\ (isComposing /\ ~isComposing') => ev'.op = "reset"]_vars

\* C18 happens: onInput corrected the document while a composition was open
\* and a text was pending.
InputDuringComposition ==
    /\ ev.op = "input" /\ ev.resolved
    /\ calls # <<>>
    /\ isComposing /\ compositionCount = 1 /\ textToInsert = <<"b">>

\* C20.  While a composition is open (onCompositionStart delivered, its
\* onCompositionEnd not yet), isComposing is TRUE, whatever callbacks of
\* earlier compositions have run.
OpenCompositionIsComposing ==
    caller.st = "composing" => isComposing

\* C20 happens: the second composition is open and the callback of the first
\* has run.
OpenAfterEarlierReset ==
    /\ caller.st = "composing"
    /\ compositionCount = 2
    /\ ev.op = "reset" /\ ev.n = 1
    /\ raf = <<>>
    /\ isComposing

-----------------------------------------------------------------------------
(* Convergence: C19 *)

\* C19 as stated: on either platform, whenever onInput makes a correction
\* (insertTextAtRange or deleteCharBackward), the text of the leaf found is
\* the compared DOM text afterwards: the node's text is what it was with the
\* leaf's range replaced by that text.
CorrectionConverges ==
    [][(ev'.op = "input" /\ ev'.resolved /\ calls' # <<>>) =>
        LET before == NodeText(document[ev'.key])
        IN /\ Len(document') = Len(document)
           /\ NodeText(document'[ev'.key])
                = SubSeq(before, 1, ev'.start) \o ev'.textContent
                    \o SubSeq(before, ev'.end + 1, Len(before))]_vars

====
